---- MODULE Spec2Model ----
(***************************************************************************)
(* Model of the G HUB battery monitor action                               *)
(* (src/src/actions/monitor-battery.ts): the module-level state (devices,  *)
(* ws, isConnecting, reconnectInterval, instances), the Stream Deck event  *)
(* handlers, the WebSocket listeners and the reconnect timer callback.     *)
(* Every handler is one atomic action (Node runs each callback to          *)
(* completion); the host, the telemetry service and the sockets are the    *)
(* environment that chooses which callback runs next.                      *)
(***************************************************************************)
EXTENDS Integers, Sequences, FiniteSets, TLC

\* ------------------------------------------------------------------ bounds
\* Number of socket objects that can exist at once (the current one plus
\* abandoned ones that have not yet emitted their final close).
MaxSockets == 2
\* Number of interval timers that can exist at once.
MaxTimers == 2

\* Number of composite renders that can be in flight at once.
MaxRenders == 2

SocketIds == 1..MaxSockets
RenderIds == 1..MaxRenders
TimerIds == 1..MaxTimers

\* ------------------------------------------------------------ input domains
Widgets == {"w1", "w2"}
DeviceIds == {"dev001", "dev002"}

\* An optional value (undefined or a value) is <<>> or <<v>>.
None == <<>>
Some(v) == <<v>>
\* a ?? b
Coalesce(x, d) == IF x = None THEN d ELSE x[1]

\* Settings payloads the host may supply (MonitorSettings plus spacing).
NoSettings ==
  [device |-> None, name |-> None, bg |-> None, spacing |-> None,
   value |-> None, pluggedIn |-> None]
SettingsSet ==
  { NoSettings,
    [NoSettings EXCEPT !.device = Some("dev002"), !.name = Some("Mouse"),
                       !.bg = Some("#FF0000"), !.spacing = Some(1)],
    [NoSettings EXCEPT !.device = Some("")] }

Dev(id, label, cap) ==
  [id |-> id, displayName |-> label, capabilities |-> [hasBatteryStatus |-> cap]]
Mouse == Dev("dev001", "G502", TRUE)
Headset == Dev("dev002", "G733", TRUE)
Mic == Dev("dev002", "Yeti", FALSE)
\* deviceInfos arrays the telemetry service may answer with.
Snapshots ==
  { <<>>, <<Mic>>, <<Mouse>>, <<Mic, Mouse>>, <<Headset, Mouse>> }

\* A path "/a/b/c" is the sequence of its segments <<"a", "b", "c">>.
DevicesListPath == <<"devices", "list">>
BatteryChangedPath == <<"battery", "state", "changed">>
BatteryStatePath(devId) == <<"battery", devId, "state">>

BatteryPayloads ==
  { [deviceId |-> d, percentage |-> pc[1], charging |-> pc[2]] :
      d \in DeviceIds, pc \in { <<85, TRUE>> } }
\* Inbound frames {path, payload?}.
ListFrames == { [path |-> DevicesListPath, payload |-> Some([deviceInfos |-> s])] :
                  s \in Snapshots }
StateFrames == { [path |-> BatteryStatePath(p.deviceId), payload |-> Some(p)] :
                   p \in BatteryPayloads }
AsleepFrames == { [path |-> BatteryStatePath(d), payload |-> None] : d \in DeviceIds }
PushFrames == { [path |-> BatteryChangedPath, payload |-> Some(p)] :
                  p \in BatteryPayloads }
OtherFrames == { [path |-> <<"devices", "state", "changed">>, payload |-> None] }
Frames == ListFrames \cup StateFrames \cup AsleepFrames \cup PushFrames \cup OtherFrames

PluginEvents == {"getDevices", "refreshDevices", "other"}

\* -------------------------------------------------------------------- state
VARIABLES
  devices,            \* let devices: Device[]
  ws,                 \* let ws: WebSocket | null   (0 is null, else a socket id)
  isConnecting,       \* let isConnecting
  reconnectInterval,  \* let reconnectInterval      (0 is null, else a timer id)
  instances,          \* const instances: Map<string, Instance>
  instOrder,          \* insertion order of the keys of instances
  visible,            \* streamDeck.actions: the actions the host shows now
  sockets,            \* the WebSocket objects: readyState and listeners
  timers,             \* the interval timers that are running
  up,                 \* the telemetry service accepts connections
  ev,                 \* the callback that ran last and its input
  asked,              \* the requests that callback handed to a send, in order
  sent,               \* the frames that callback sent, in order
  ui,                 \* the host calls that callback made, in order
  seen,               \* the device ids the registry has held so far
  renders,            \* the createCompositeImage promises in flight
  screen              \* the title and image the host shows for each action

vars == <<devices, ws, isConnecting, reconnectInterval, instances, instOrder,
          visible, sockets, timers, up, ev, asked, sent, ui, seen, renders, screen>>

conn == <<ws, isConnecting, sockets>>
timer == <<reconnectInterval, timers>>
table == <<instances, instOrder>>
display == <<renders, screen>>

\* ------------------------------------------------------------------ helpers
Range(s) == { s[i] : i \in 1..Len(s) }
RECURSIVE Remove(_, _)
Remove(s, x) ==
  IF s = <<>> THEN <<>>
  ELSE IF Head(s) = x THEN Remove(Tail(s), x) ELSE <<Head(s)>> \o Remove(Tail(s), x)

\* "\n".repeat(n)
RECURSIVE Repeat(_, _)
Repeat(str, n) == IF n <= 0 THEN "" ELSE str \o Repeat(str, n - 1)

\* ws.readyState of socket s among the socket objects socks.
ReadyState(socks, s) == IF s = 0 THEN "null" ELSE socks[s].readyState

\* --------------------------------------------------------- pure functions
\* getBatteryImage without its "percentage > 0" step: 1..9 fall to the 0 icon.
getBatteryImage_NoLowStep(percentage, charging) ==
  IF charging
  THEN IF percentage >= 80 THEN "imgs/actions/monitor/charging-green"
       ELSE IF percentage >= 40 THEN "imgs/actions/monitor/charging-orange"
       ELSE "imgs/actions/monitor/charging-red"
  ELSE IF percentage = 100 THEN "imgs/actions/monitor/key-100"
       ELSE IF percentage >= 95 THEN "imgs/actions/monitor/key-95"
       ELSE IF percentage >= 90 THEN "imgs/actions/monitor/key-90"
       ELSE IF percentage >= 80 THEN "imgs/actions/monitor/key-80"
       ELSE IF percentage >= 70 THEN "imgs/actions/monitor/key-70"
       ELSE IF percentage >= 60 THEN "imgs/actions/monitor/key-60"
       ELSE IF percentage >= 50 THEN "imgs/actions/monitor/key-50"
       ELSE IF percentage >= 40 THEN "imgs/actions/monitor/key-40"
       ELSE IF percentage >= 30 THEN "imgs/actions/monitor/key-30"
       ELSE IF percentage >= 20 THEN "imgs/actions/monitor/key-20"
       ELSE IF percentage >= 10 THEN "imgs/actions/monitor/key-10"
       ELSE "imgs/actions/monitor/key-0"

\* getBatteryImage: the icon for a battery state.
getBatteryImage(percentage, charging) ==
  IF charging
  THEN IF percentage >= 80 THEN "imgs/actions/monitor/charging-green"
       ELSE IF percentage >= 40 THEN "imgs/actions/monitor/charging-orange"
       ELSE "imgs/actions/monitor/charging-red"
  ELSE IF percentage = 100 THEN "imgs/actions/monitor/key-100"
       ELSE IF percentage >= 95 THEN "imgs/actions/monitor/key-95"
       ELSE IF percentage >= 90 THEN "imgs/actions/monitor/key-90"
       ELSE IF percentage >= 80 THEN "imgs/actions/monitor/key-80"
       ELSE IF percentage >= 70 THEN "imgs/actions/monitor/key-70"
       ELSE IF percentage >= 60 THEN "imgs/actions/monitor/key-60"
       ELSE IF percentage >= 50 THEN "imgs/actions/monitor/key-50"
       ELSE IF percentage >= 40 THEN "imgs/actions/monitor/key-40"
       ELSE IF percentage >= 30 THEN "imgs/actions/monitor/key-30"
       ELSE IF percentage >= 20 THEN "imgs/actions/monitor/key-20"
       ELSE IF percentage >= 10 THEN "imgs/actions/monitor/key-10"
       ELSE IF percentage > 0 THEN "imgs/actions/monitor/key-10"
       ELSE "imgs/actions/monitor/key-0"

AsleepImage == "imgs/actions/monitor/asleep"
DefaultBackground == "#12142D"

\* The title of a refreshed action.
TitleOf(inst) ==
  IF inst.name # ""
  THEN inst.name \o Repeat("\n", inst.spacing) \o ToString(inst.percentage) \o "%"
  ELSE ToString(inst.percentage) \o "%"

\* The items, had label and value been taken from the wrong fields.
DeviceItems_Swapped(devs) ==
  [i \in 1..Len(devs) |-> [label |-> devs[i].id, value |-> devs[i].displayName]]

\* devices.map((device) => ({ label: device.displayName, value: device.id }))
DeviceItems(devs) ==
  [i \in 1..Len(devs) |-> [label |-> devs[i].displayName, value |-> devs[i].id]]

\* deviceInfos taken as they come, without the capability filter.
FilterCapable_KeepsAll(infos) == infos

\* deviceInfos.filter((d) => d?.capabilities?.hasBatteryStatus)
FilterCapable(infos) == SelectSeq(infos, LAMBDA d : d.capabilities.hasBatteryStatus)

\* payload.path.includes("/battery/")
PathIncludesBattery(path) == \E i \in 1..(Len(path) - 1) : path[i] = "battery"
\* The device id taken one segment too far.
FailedDevice_WrongSegment(path) ==
  LET first == CHOOSE i \in 1..(Len(path) - 1) :
                 /\ path[i] = "battery"
                 /\ \A j \in 1..(i - 1) : path[j] # "battery"
  IN IF first + 2 <= Len(path) THEN path[first + 2] ELSE ""

\* path.split("/battery/")[1].split("/")[0]
FailedDevice(path) ==
  LET first == CHOOSE i \in 1..(Len(path) - 1) :
                 /\ path[i] = "battery"
                 /\ \A j \in 1..(i - 1) : path[j] # "battery"
  IN path[first + 1]

\* -------------------------------------------------------------- send paths
Request(s, path, verb) == [sock |-> s, path |-> path, verb |-> verb]
\* A {path, verb} handed to websocketSend or to ws.send.
Ask(path, verb) == [path |-> path, verb |-> verb]

\* ws.send(JSON.stringify({path, verb})) of the ws library on socket s (s # 0):
\* it throws while the socket is CONNECTING, transmits while it is OPEN and
\* drops the data without an error once it is CLOSING or CLOSED.
wsSend(socks, s, path, verb) ==
  LET rs == ReadyState(socks, s) IN
  [sent |-> IF rs = "OPEN" THEN <<Request(s, path, verb)>> ELSE <<>>,
   threw |-> rs = "CONNECTING"]

\* websocketSend(ws, path, verb): the guarded send. Reading readyState of a
\* null ws throws inside the try block and is caught.
websocketSend(socks, s, path, verb) ==
  IF s # 0 /\ ReadyState(socks, s) = "OPEN" THEN wsSend(socks, s, path, verb).sent ELSE <<>>

\* initializeWebsocket(ws!): two unguarded sends on the module-level ws.
initializeWebsocket(socks, s) ==
  IF s = 0 THEN [asked |-> <<>>, sent |-> <<>>, threw |-> TRUE]
  ELSE LET r1 == wsSend(socks, s, DevicesListPath, "GET")
           r2 == wsSend(socks, s, BatteryChangedPath, "SUBSCRIBE")
       IN IF r1.threw
          THEN [asked |-> <<Ask(DevicesListPath, "GET")>>, sent |-> r1.sent, threw |-> TRUE]
          ELSE [asked |-> <<Ask(DevicesListPath, "GET"), Ask(BatteryChangedPath, "SUBSCRIBE")>>,
                sent |-> r1.sent \o r2.sent, threw |-> r2.threw]

\* ------------------------------------------------------ connection manager
Conn == [ws |-> ws, isConnecting |-> isConnecting, sockets |-> sockets]
Timer == [reconnectInterval |-> reconnectInterval, timers |-> timers]

HasFreeSocket == \E s \in SocketIds : sockets[s].readyState = "CLOSED"
HasFreeTimer == \E t \in TimerIds : t \notin timers

\* getWebsocketConnection(): a new socket object, CONNECTING.
getWebsocketConnection(socks) ==
  CHOOSE s \in SocketIds :
    /\ socks[s].readyState = "CLOSED"
    /\ \A r \in SocketIds : socks[r].readyState = "CLOSED" => s <= r

\* startWebSocketConnection()
startWebSocketConnection(c) ==
  IF c.isConnecting THEN c
  ELSE LET s == getWebsocketConnection(c.sockets) IN
       [ws |-> s, isConnecting |-> TRUE,
        sockets |-> [c.sockets EXCEPT ![s] =
                       [readyState |-> "CONNECTING", listeners |-> TRUE]]]

\* cleanupWebSocket(), had it dropped the handle and kept the listeners.
cleanupWebSocket_KeepsListeners(c) ==
  IF c.ws # 0
  THEN [c EXCEPT !.ws = 0, !.isConnecting = FALSE]
  ELSE [c EXCEPT !.isConnecting = FALSE]

\* cleanupWebSocket()
cleanupWebSocket(c) ==
  IF c.ws # 0
  THEN [ws |-> 0, isConnecting |-> FALSE,
        sockets |-> [c.sockets EXCEPT ![c.ws].listeners = FALSE]]
  ELSE [c EXCEPT !.isConnecting = FALSE]

\* scheduleReconnect(), had it not looked at reconnectInterval.
scheduleReconnect_AlwaysArms(t, size) ==
  IF size = 0 THEN t
  ELSE LET id == CHOOSE i \in TimerIds :
                   i \notin t.timers /\ \A j \in TimerIds : j \notin t.timers => i <= j
       IN [reconnectInterval |-> id, timers |-> t.timers \cup {id}]

\* scheduleReconnect()
scheduleReconnect(t, size) ==
  IF t.reconnectInterval # 0 \/ size = 0 THEN t
  ELSE LET id == CHOOSE i \in TimerIds :
                   i \notin t.timers /\ \A j \in TimerIds : j \notin t.timers => i <= j
       IN [reconnectInterval |-> id, timers |-> t.timers \cup {id}]

\* if (!ws && !isConnecting) startWebSocketConnection() in onWillAppear: the
\* variant that forgets that an open socket is not "connecting".
connectOnAppear_NoWsCheck(c) ==
  IF ~c.isConnecting THEN startWebSocketConnection(c) ELSE c

\* if (!ws && !isConnecting) startWebSocketConnection() in onWillAppear
connectOnAppear(c) ==
  IF c.ws = 0 /\ ~c.isConnecting THEN startWebSocketConnection(c) ELSE c

\* The timer callback, had it no body.
connectOnTick_Never(c) == c

\* if (!ws && !isConnecting) startWebSocketConnection() in the timer callback
connectOnTick(c) ==
  IF c.ws = 0 /\ ~c.isConnecting THEN startWebSocketConnection(c) ELSE c

\* The open listener, had it left the interval running.
clearReconnect_Keeps(t) == t

\* The open listener's clearInterval(reconnectInterval).
clearReconnect(t) ==
  IF t.reconnectInterval # 0
  THEN [reconnectInterval |-> 0, timers |-> t.timers \ {t.reconnectInterval}]
  ELSE t

\* --------------------------------------------------------- message router
\* The loop of the device-list branch, had it bound every instance to the
\* first device of the list, chosen device or not.
RECURSIVE AssignLoop_Rebinds(_, _, _, _, _)
AssignLoop_Rebinds(order, insts, devs, asks, out) ==
  IF order = <<>> THEN [instances |-> insts, asked |-> asks, sent |-> out, threw |-> FALSE]
  ELSE LET w == Head(order)
       IN IF devs = <<>>
          THEN [instances |-> insts, asked |-> asks, sent |-> out, threw |-> TRUE]
          ELSE LET devId == devs[1].id
               IN AssignLoop_Rebinds(Tail(order),
                                     [insts EXCEPT ![w].deviceId = devId],
                                     devs,
                                     Append(asks, Ask(BatteryStatePath(devId), "GET")),
                                     out \o websocketSend(sockets, ws, BatteryStatePath(devId), "GET"))

\* The loop over instances.entries() of the device-list branch. devices[0].id
\* is evaluated only when inst.deviceId is falsy, and it throws a TypeError
\* when devices is empty: the loop then stops where it is.
RECURSIVE AssignLoop(_, _, _, _, _)
AssignLoop(order, insts, devs, asks, out) ==
  IF order = <<>> THEN [instances |-> insts, asked |-> asks, sent |-> out, threw |-> FALSE]
  ELSE LET w == Head(order)
           inst == insts[w]
       IN IF inst.deviceId = "" /\ devs = <<>>
          THEN [instances |-> insts, asked |-> asks, sent |-> out, threw |-> TRUE]
          ELSE LET devId == IF inst.deviceId # "" THEN inst.deviceId ELSE devs[1].id
               IN IF devId # ""
                  THEN AssignLoop(Tail(order),
                                  [insts EXCEPT ![w].deviceId = devId],
                                  devs,
                                  Append(asks, Ask(BatteryStatePath(devId), "GET")),
                                  out \o websocketSend(sockets, ws, BatteryStatePath(devId), "GET"))
                  ELSE AssignLoop(Tail(order), insts, devs, asks, out)

\* setCompositeImage(action, imagePath): the render it requests.
setCompositeImage(w, insts, imagePath) ==
  LET bg == IF w \in DOMAIN insts /\ insts[w].backgroundColor # ""
            THEN insts[w].backgroundColor ELSE DefaultBackground
  IN [call |-> "setCompositeImage", action |-> w, imagePath |-> imagePath, bg |-> bg]

setTitle(w, title) == [call |-> "setTitle", action |-> w, title |-> title]

sendToPropertyInspector(devs) ==
  [call |-> "sendToPropertyInspector", event |-> "getDevices", items |-> DeviceItems(devs)]

\* The loop over streamDeck.actions of the no-payload battery branch.
RECURSIVE AsleepLoop(_, _, _)
AsleepLoop(actions, insts, failedDevice) ==
  IF actions = <<>> THEN <<>>
  ELSE LET w == Head(actions) IN
       (IF w \in DOMAIN insts /\ insts[w].deviceId = failedDevice
        THEN <<setCompositeImage(w, insts, AsleepImage), setTitle(w, "")>>
        ELSE <<>>)
       \o AsleepLoop(Tail(actions), insts, failedDevice)

\* The battery-state loop, had it a break after the first refreshed action.
RECURSIVE RefreshLoop_FirstOnly(_, _, _, _)
RefreshLoop_FirstOnly(actions, insts, bs, out) ==
  IF actions = <<>> THEN [instances |-> insts, ui |-> out]
  ELSE LET w == Head(actions) IN
       IF ~(w \in DOMAIN insts /\ insts[w].deviceId = bs.deviceId)
       THEN RefreshLoop_FirstOnly(Tail(actions), insts, bs, out)
       ELSE LET insts1 == [insts EXCEPT ![w].percentage = bs.percentage,
                                        ![w].charging = bs.charging]
            IN [instances |-> insts1,
                ui |-> out \o <<setCompositeImage(w, insts1,
                                   getBatteryImage(bs.percentage, bs.charging)),
                                 setTitle(w, TitleOf(insts1[w]))>>]

\* The loop over streamDeck.actions of the battery-state branch.
RECURSIVE RefreshLoop(_, _, _, _)
RefreshLoop(actions, insts, bs, out) ==
  IF actions = <<>> THEN [instances |-> insts, ui |-> out]
  ELSE LET w == Head(actions) IN
       IF ~(w \in DOMAIN insts /\ insts[w].deviceId = bs.deviceId)
       THEN RefreshLoop(Tail(actions), insts, bs, out)
       ELSE LET insts1 == [insts EXCEPT ![w].percentage = bs.percentage,
                                        ![w].charging = bs.charging]
                image == getBatteryImage(bs.percentage, bs.charging)
            IN RefreshLoop(Tail(actions), insts1, bs,
                           out \o <<setCompositeImage(w, insts1, image),
                                    setTitle(w, TitleOf(insts1[w]))>>)

\* handleWebsocketMessage(msg) for the decoded frame; pi tells whether a
\* property inspector is open (streamDeck.ui.current).
handleWebsocketMessage(frame, pi) ==
  LET isList == ws # 0 /\ frame.path = DevicesListPath
      noBody == isList /\ frame.payload = None
      devs1 == IF isList /\ ~noBody
               THEN FilterCapable(frame.payload[1].deviceInfos) ELSE devices
      assign == IF noBody
                THEN [instances |-> instances, asked |-> <<>>, sent |-> <<>>, threw |-> TRUE]
                ELSE IF isList THEN AssignLoop(instOrder, instances, devs1, <<>>, <<>>)
                ELSE [instances |-> instances, asked |-> <<>>, sent |-> <<>>, threw |-> FALSE]
      ui1 == IF isList /\ ~assign.threw /\ pi
             THEN <<sendToPropertyInspector(devs1)>> ELSE <<>>
      isBattery == ~assign.threw /\ PathIncludesBattery(frame.path)
      refresh == IF isBattery /\ frame.payload # None
                 THEN RefreshLoop(visible, assign.instances, frame.payload[1], <<>>)
                 ELSE [instances |-> assign.instances,
                       ui |-> IF isBattery
                              THEN AsleepLoop(visible, assign.instances,
                                              FailedDevice(frame.path))
                              ELSE <<>>]
  IN [devices |-> devs1, instances |-> refresh.instances, asked |-> assign.asked,
      sent |-> assign.sent, ui |-> ui1 \o refresh.ui, threw |-> assign.threw]

\* ------------------------------------------------------------------ events
\* The record of the callback that ran last: which one, on which socket, for
\* which action or plugin event (arg), whether a listener of the plugin ran,
\* and whether it threw.
Ev(op, s, arg, handled, threw) ==
  [op |-> op, sock |-> s, arg |-> arg, handled |-> handled, threw |-> threw]

Init ==
  /\ devices = <<>>
  /\ ws = 0
  /\ isConnecting = FALSE
  /\ reconnectInterval = 0
  /\ instances = << >>
  /\ instOrder = <<>>
  /\ visible = <<>>
  /\ sockets = [s \in SocketIds |-> [readyState |-> "CLOSED", listeners |-> FALSE]]
  /\ timers = {}
  /\ up = TRUE
  /\ ev = Ev("init", 0, "", FALSE, FALSE)
  /\ asked = <<>>
  /\ sent = <<>>
  /\ ui = <<>>
  /\ seen = {}
  /\ renders = [r \in RenderIds |-> None]
  /\ screen = [w \in Widgets |-> [title |-> "", image |-> ""]]

\* The instance of onWillAppear, had it taken an unknown charge for empty.
newInstance_EmptyCharge(st) ==
  [deviceId |-> Coalesce(st.device, ""),
   name |-> Coalesce(st.name, ""),
   percentage |-> Coalesce(st.value, 0),
   charging |-> Coalesce(st.pluggedIn, FALSE),
   backgroundColor |-> Coalesce(st.bg, DefaultBackground),
   spacing |-> Coalesce(st.spacing, 2)]

\* The instance onWillAppear stores for the settings st.
newInstance(st) ==
  [deviceId |-> Coalesce(st.device, ""),
   name |-> Coalesce(st.name, ""),
   percentage |-> Coalesce(st.value, 100),
   charging |-> Coalesce(st.pluggedIn, FALSE),
   backgroundColor |-> Coalesce(st.bg, DefaultBackground),
   spacing |-> Coalesce(st.spacing, 2)]

\* MonitorBattery.onWillAppear for an action the host starts to show.
WillAppear(w, st) ==
  /\ w \notin Range(visible)
  /\ HasFreeSocket
  /\ LET c1 == connectOnAppear(Conn)
     IN /\ instances' =
             [k \in (DOMAIN instances) \cup {w} |->
                IF k = w THEN newInstance(st) ELSE instances[k]]
        /\ instOrder' = IF w \in DOMAIN instances THEN instOrder ELSE Append(instOrder, w)
        /\ visible' = Append(visible, w)
        /\ ws' = c1.ws
        /\ isConnecting' = c1.isConnecting
        /\ sockets' = c1.sockets
        /\ asked' = <<Ask(DevicesListPath, "GET")>>
        /\ sent' = websocketSend(c1.sockets, c1.ws, DevicesListPath, "GET")
        /\ ui' = <<>>
        /\ ev' = Ev("willAppear", c1.ws, w, TRUE, FALSE)
  /\ UNCHANGED <<devices, timer, up, seen, display>>

\* The host stops showing an action (page switch or removal). The plugin has
\* no handler for it; the host drops the action from streamDeck.actions.
WillDisappear(w) ==
  /\ w \in Range(visible)
  /\ visible' = Remove(visible, w)
  /\ asked' = <<>>
  /\ sent' = <<>>
  /\ ui' = <<>>
  /\ ev' = Ev("willDisappear", ws, w, FALSE, FALSE)
  /\ UNCHANGED <<devices, conn, timer, table, up, seen, display>>

\* The field writes, had the handler rebuilt the instance as onWillAppear does.
applySettings_ResetsBattery(inst, st) ==
  [deviceId |-> Coalesce(st.device, inst.deviceId),
   name |-> Coalesce(st.name, ""),
   percentage |-> Coalesce(st.value, 100),
   charging |-> Coalesce(st.pluggedIn, FALSE),
   backgroundColor |-> Coalesce(st.bg, inst.backgroundColor),
   spacing |-> Coalesce(st.spacing, 2)]

\* The field writes of onDidReceiveSettings.
applySettings(inst, st) ==
  [inst EXCEPT !.name = Coalesce(st.name, ""),
               !.deviceId = Coalesce(st.device, inst.deviceId),
               !.backgroundColor = Coalesce(st.bg, inst.backgroundColor),
               !.spacing = Coalesce(st.spacing, 2)]

\* onDidReceiveSettings, had it sent the query before writing the fields.
DidReceiveSettings_SendsFirst(w, st) ==
  /\ IF w \notin DOMAIN instances
     THEN /\ asked' = <<>>
          /\ sent' = <<>>
          /\ UNCHANGED instances
     ELSE LET inst == applySettings(instances[w], st)
              query == ReadyState(sockets, ws) = "OPEN" /\ instances[w].deviceId # ""
          IN /\ instances' = [instances EXCEPT ![w] = inst]
             /\ asked' = IF query THEN <<Ask(BatteryStatePath(instances[w].deviceId), "GET")>>
                         ELSE <<>>
             /\ sent' = IF query
                        THEN websocketSend(sockets, ws,
                                           BatteryStatePath(instances[w].deviceId), "GET")
                        ELSE <<>>
  /\ ui' = <<>>
  /\ ev' = Ev("didReceiveSettings", ws, w, w \in DOMAIN instances, FALSE)
  /\ UNCHANGED <<devices, conn, timer, instOrder, visible, up, seen, display>>

\* MonitorBattery.onDidReceiveSettings
DidReceiveSettings(w, st) ==
  /\ IF w \notin DOMAIN instances
     THEN /\ asked' = <<>>
          /\ sent' = <<>>
          /\ UNCHANGED instances
     ELSE LET inst == applySettings(instances[w], st)
              query == ReadyState(sockets, ws) = "OPEN" /\ inst.deviceId # ""
          IN /\ instances' = [instances EXCEPT ![w] = inst]
             /\ asked' = IF query THEN <<Ask(BatteryStatePath(inst.deviceId), "GET")>>
                         ELSE <<>>
             /\ sent' = IF query
                        THEN websocketSend(sockets, ws, BatteryStatePath(inst.deviceId), "GET")
                        ELSE <<>>
  /\ ui' = <<>>
  /\ ev' = Ev("didReceiveSettings", ws, w, w \in DOMAIN instances, FALSE)
  /\ UNCHANGED <<devices, conn, timer, instOrder, visible, up, seen, display>>

\* The refreshDevices branch of onSendToPlugin: ws?.send(...), unguarded.
refreshDevices(socks, s) ==
  IF s = 0 THEN [sent |-> <<>>, threw |-> FALSE]
  ELSE wsSend(socks, s, DevicesListPath, "GET")

\* MonitorBattery.onSendToPlugin
SendToPlugin(e, pi) ==
  LET r == IF e = "refreshDevices" THEN refreshDevices(sockets, ws)
           ELSE [sent |-> <<>>, threw |-> FALSE]
  IN /\ ui' = IF e = "getDevices" /\ pi THEN <<sendToPropertyInspector(devices)>> ELSE <<>>
     /\ asked' = IF e = "refreshDevices" /\ ws # 0
                 THEN <<Ask(DevicesListPath, "GET")>> ELSE <<>>
     /\ sent' = r.sent
     /\ ev' = Ev("sendToPlugin", ws, e, TRUE, r.threw)
     /\ UNCHANGED <<devices, conn, timer, table, visible, up, seen, display>>

\* The callback of the reconnect interval timer t.
ReconnectTick(t) ==
  /\ t \in timers
  /\ HasFreeSocket
  /\ LET c1 == connectOnTick(Conn)
     IN /\ ws' = c1.ws
        /\ isConnecting' = c1.isConnecting
        /\ sockets' = c1.sockets
        /\ ev' = Ev("tick", c1.ws, "", TRUE, FALSE)
  /\ asked' = <<>>
  /\ sent' = <<>>
  /\ ui' = <<>>
  /\ UNCHANGED <<devices, timer, table, visible, up, seen, display>>

\* The open listener, had it only reset isConnecting and initialized.
SockOpen_LeavesInterval(s) ==
  /\ up
  /\ sockets[s].readyState = "CONNECTING"
  /\ LET socks1 == [sockets EXCEPT ![s].readyState = "OPEN"] IN
     IF sockets[s].listeners
     THEN LET r == initializeWebsocket(socks1, ws)
          IN /\ isConnecting' = FALSE
             /\ sockets' = socks1
             /\ asked' = r.asked
             /\ sent' = r.sent
             /\ ev' = Ev("open", s, "", TRUE, r.threw)
             /\ UNCHANGED <<ws, timer>>
     ELSE /\ sockets' = socks1
          /\ asked' = <<>>
          /\ sent' = <<>>
          /\ ev' = Ev("open", s, "", FALSE, FALSE)
          /\ UNCHANGED <<ws, isConnecting, timer>>
  /\ ui' = <<>>
  /\ UNCHANGED <<devices, table, visible, up, seen, display>>

\* Socket s emits "open": the handshake succeeded.
SockOpen(s) ==
  /\ up
  /\ sockets[s].readyState = "CONNECTING"
  /\ LET socks1 == [sockets EXCEPT ![s].readyState = "OPEN"] IN
     IF sockets[s].listeners
     THEN LET t1 == clearReconnect(Timer)
              r == initializeWebsocket(socks1, ws)
          IN /\ isConnecting' = FALSE
             /\ reconnectInterval' = t1.reconnectInterval
             /\ timers' = t1.timers
             /\ sockets' = socks1
             /\ asked' = r.asked
             /\ sent' = r.sent
             /\ ev' = Ev("open", s, "", TRUE, r.threw)
             /\ UNCHANGED ws
     ELSE /\ sockets' = socks1
          /\ asked' = <<>>
          /\ sent' = <<>>
          /\ ev' = Ev("open", s, "", FALSE, FALSE)
          /\ UNCHANGED <<ws, isConnecting, timer>>
  /\ ui' = <<>>
  /\ UNCHANGED <<devices, table, visible, up, seen, display>>

\* The body shared by the error and the close listener.
onErrorOrClose(c, t, size) ==
  [conn |-> cleanupWebSocket(c), timer |-> scheduleReconnect(t, size)]

\* Socket s fails (emits "error") or ends (emits "close"); rs is its
\* readyState when the listener runs.
SockDown(op, s, rs) ==
  /\ HasFreeTimer
  /\ LET socks1 == [sockets EXCEPT ![s].readyState = rs] IN
     IF sockets[s].listeners
     THEN LET r == onErrorOrClose([Conn EXCEPT !.sockets = socks1], Timer,
                                  Cardinality(DOMAIN instances))
          IN /\ ws' = r.conn.ws
             /\ isConnecting' = r.conn.isConnecting
             /\ sockets' = r.conn.sockets
             /\ reconnectInterval' = r.timer.reconnectInterval
             /\ timers' = r.timer.timers
             /\ ev' = Ev(op, s, "", TRUE, FALSE)
     ELSE /\ sockets' = socks1
          /\ ev' = Ev(op, s, "", FALSE, FALSE)
          /\ UNCHANGED <<ws, isConnecting, timer>>
  /\ asked' = <<>>
  /\ sent' = <<>>
  /\ ui' = <<>>
  /\ UNCHANGED <<devices, table, visible, up, seen, display>>

\* "error": a failed handshake or a broken connection; the socket is CLOSING
\* and its "close" follows.
SockError(s) ==
  /\ sockets[s].readyState \in {"CONNECTING", "OPEN"}
  /\ SockDown("error", s, "CLOSING")

\* "close": the connection ended, after an error or because the peer closed.
SockClose(s) ==
  /\ sockets[s].readyState \in {"OPEN", "CLOSING"}
  /\ SockDown("close", s, "CLOSED")

\* The peer starts the closing handshake: readyState CLOSING, no event yet.
SockClosing(s) ==
  /\ sockets[s].readyState = "OPEN"
  /\ sockets' = [sockets EXCEPT ![s].readyState = "CLOSING"]
  /\ asked' = <<>>
  /\ sent' = <<>>
  /\ ui' = <<>>
  /\ ev' = Ev("closing", s, "", FALSE, FALSE)
  /\ UNCHANGED <<devices, ws, isConnecting, timer, table, visible, up, seen, display>>

\* The ids of a device array.
IdsOf(devs) == { devs[i].id : i \in 1..Len(devs) }

\* The message listener of socket s run on a frame.
onMessage(s, frame, pi) ==
  /\ sockets[s].readyState = "OPEN"
  /\ IF sockets[s].listeners
     THEN LET r == handleWebsocketMessage(frame, pi) IN
          /\ devices' = r.devices
          /\ instances' = r.instances
          /\ asked' = r.asked
          /\ sent' = r.sent
          /\ ui' = r.ui
          /\ ev' = Ev("message", s, "", TRUE, r.threw)
     ELSE /\ asked' = <<>>
          /\ sent' = <<>>
          /\ ui' = <<>>
          /\ ev' = Ev("message", s, "", FALSE, FALSE)
          /\ UNCHANGED <<devices, instances>>
  /\ UNCHANGED <<conn, timer, instOrder, visible, up>>

\* Socket s emits "message" with a frame. The history of the registry, the
\* renders in flight and the screen of the host are not followed here (see
\* TracedMessage): the requests of the listener are in ui.
SockMessage(s, frame, pi) ==
  /\ onMessage(s, frame, pi)
  /\ UNCHANGED <<seen, display>>

\* createCompositeImage(backgroundColor, iconPath): the data URL of the PNG
\* of the icon file over the background colour.
createCompositeImage(backgroundColor, iconPath) ==
  "data:image/png;base64," \o backgroundColor \o "+" \o iconPath \o "@2x.png"

setImage(w, image) == [call |-> "setImage", action |-> w, image |-> image]

\* The setCompositeImage calls among host calls, in order.
RenderRequests(calls) == SelectSeq(calls, LAMBDA c : c.call = "setCompositeImage")

FreeRenders(rs) == { r \in RenderIds : rs[r] = None }

\* The promises added, had a new request dropped the renders still in flight
\* for its action.
RECURSIVE StartRenders_Supersedes(_, _)
StartRenders_Supersedes(rs, reqs) ==
  IF reqs = <<>> THEN rs
  ELSE LET kept == [i \in RenderIds |->
                      IF rs[i] # None /\ rs[i][1].action = Head(reqs).action
                      THEN None ELSE rs[i]]
           r == CHOOSE i \in FreeRenders(kept) : \A j \in FreeRenders(kept) : i <= j
       IN StartRenders_Supersedes([kept EXCEPT ![r] = Some(Head(reqs))], Tail(reqs))

\* The promises of the render requests reqs added to those in flight.
RECURSIVE StartRenders(_, _)
StartRenders(rs, reqs) ==
  IF reqs = <<>> THEN rs
  ELSE LET r == CHOOSE i \in FreeRenders(rs) : \A j \in FreeRenders(rs) : i <= j
       IN StartRenders([rs EXCEPT ![r] = Some(Head(reqs))], Tail(reqs))

\* The screen after the action.setTitle calls among host calls.
RECURSIVE ShowTitles(_, _)
ShowTitles(scr, calls) ==
  IF calls = <<>> THEN scr
  ELSE ShowTitles(IF Head(calls).call = "setTitle"
                  THEN [scr EXCEPT ![Head(calls).action].title = Head(calls).title]
                  ELSE scr,
                  Tail(calls))

\* Socket s emits "message" with a frame, with the histories followed: the
\* registry ids seen, the createCompositeImage promises started by
\* setCompositeImage and the titles the host now shows.
TracedMessage(s, frame, pi) ==
  /\ onMessage(s, frame, pi)
  /\ seen' = seen \cup IdsOf(devices')
  /\ Len(RenderRequests(ui')) <= Cardinality(FreeRenders(renders))
  /\ renders' = StartRenders(renders, RenderRequests(ui'))
  /\ screen' = ShowTitles(screen, ui')

\* The settling of the promise, had setCompositeImage no catch-callback.
RenderDone_NoFallback(r, ok) ==
  /\ renders[r] # None
  /\ LET q == renders[r][1]
     IN /\ renders' = [renders EXCEPT ![r] = None]
        /\ ui' = IF ok THEN <<setImage(q.action, createCompositeImage(q.bg, q.imagePath))>>
                 ELSE <<>>
        /\ screen' = IF ok
                     THEN [screen EXCEPT ![q.action].image =
                                           createCompositeImage(q.bg, q.imagePath)]
                     ELSE screen
        /\ ev' = Ev("rendered", ws, q.action, TRUE, ~ok)
  /\ asked' = <<>>
  /\ sent' = <<>>
  /\ UNCHANGED <<devices, conn, timer, table, visible, up, seen>>

\* The promise r of createCompositeImage settles: fulfilled (ok) with the
\* composite, which the then-callback passes to action.setImage, or rejected,
\* on which the catch-callback passes the plain icon path to action.setImage.
RenderDone(r, ok) ==
  /\ renders[r] # None
  /\ LET q == renders[r][1]
         image == IF ok THEN createCompositeImage(q.bg, q.imagePath) ELSE q.imagePath
     IN /\ renders' = [renders EXCEPT ![r] = None]
        /\ ui' = <<setImage(q.action, image)>>
        /\ screen' = [screen EXCEPT ![q.action].image = image]
        /\ ev' = Ev("rendered", ws, q.action, TRUE, FALSE)
  /\ asked' = <<>>
  /\ sent' = <<>>
  /\ UNCHANGED <<devices, conn, timer, table, visible, up, seen>>

\* The telemetry service (G HUB) starts.
ServiceStart ==
  /\ ~up
  /\ up' = TRUE
  /\ asked' = <<>>
  /\ sent' = <<>>
  /\ ui' = <<>>
  /\ ev' = Ev("serviceStart", 0, "", FALSE, FALSE)
  /\ UNCHANGED <<devices, conn, timer, table, visible, seen, display>>

\* The whole program against an environment in which a connection may fail,
\* close or open at any time, with a small set of settings and frames.
LifecycleSettings == { NoSettings, [NoSettings EXCEPT !.device = Some("dev002")] }
LifecycleFrames ==
  { f \in ListFrames : f.payload[1].deviceInfos \in { <<>>, <<Mouse>> } }
  \cup { f \in PushFrames : f.payload[1].deviceId = "dev001" }
  \cup { f \in AsleepFrames : f.path = BatteryStatePath("dev001") }

Next ==
  \/ \E w \in Widgets, st \in LifecycleSettings : WillAppear(w, st)
  \/ \E w \in Widgets : WillDisappear(w)
  \/ \E w \in Widgets, st \in LifecycleSettings : DidReceiveSettings(w, st)
  \/ \E e \in PluginEvents, pi \in BOOLEAN : SendToPlugin(e, pi)
  \/ \E t \in TimerIds : ReconnectTick(t)
  \/ \E s \in SocketIds : SockOpen(s)
  \/ \E s \in SocketIds : SockError(s)
  \/ \E s \in SocketIds : SockClose(s)
  \/ \E s \in SocketIds : SockClosing(s)
  \/ \E s \in SocketIds, f \in LifecycleFrames, pi \in BOOLEAN : SockMessage(s, f, pi)

Spec == Init /\ [][Next]_vars

\* The whole table and router against every settings payload and frame,
\* with a connection that opens and may be closed by the peer and re-made.
TableNext ==
  \/ \E w \in Widgets, st \in SettingsSet : WillAppear(w, st)
  \/ \E w \in Widgets : WillDisappear(w)
  \/ \E w \in Widgets, st \in SettingsSet : DidReceiveSettings(w, st)
  \/ \E t \in TimerIds : ReconnectTick(t)
  \/ \E s \in SocketIds : SockOpen(s)
  \/ \E s \in SocketIds : SockClose(s)
  \/ \E s \in SocketIds, f \in Frames, pi \in BOOLEAN : SockMessage(s, f, pi)

TableSpec == Init /\ [][TableNext]_vars

\* The scenario "Stream Deck starts before G Hub": the service is down, comes
\* up once and stays up. While it is down no handshake succeeds; once it is up
\* no handshake fails. An open connection may still break or be closed.
LiveInit ==
  /\ devices = <<>>
  /\ ws = 0
  /\ isConnecting = FALSE
  /\ reconnectInterval = 0
  /\ instances = << >>
  /\ instOrder = <<>>
  /\ visible = <<>>
  /\ sockets = [s \in SocketIds |-> [readyState |-> "CLOSED", listeners |-> FALSE]]
  /\ timers = {}
  /\ up = FALSE
  /\ ev = Ev("init", 0, "", FALSE, FALSE)
  /\ asked = <<>>
  /\ sent = <<>>
  /\ ui = <<>>
  /\ seen = {}
  /\ renders = [r \in RenderIds |-> None]
  /\ screen = [w \in Widgets |-> [title |-> "", image |-> ""]]

LiveSockError(s) ==
  /\ sockets[s].readyState = "CONNECTING" => ~up
  /\ SockError(s)

\* The "close" that follows an "error" or a closing handshake.
SockFinalClose(s) ==
  /\ sockets[s].readyState = "CLOSING"
  /\ SockClose(s)

LiveNext ==
  \/ \E w \in Widgets, st \in LifecycleSettings : WillAppear(w, st)
  \/ \E w \in Widgets : WillDisappear(w)
  \/ \E w \in Widgets, st \in LifecycleSettings : DidReceiveSettings(w, st)
  \/ \E e \in PluginEvents, pi \in BOOLEAN : SendToPlugin(e, pi)
  \/ \E t \in TimerIds : ReconnectTick(t)
  \/ \E s \in SocketIds : SockOpen(s)
  \/ \E s \in SocketIds : LiveSockError(s)
  \/ \E s \in SocketIds : SockClose(s)
  \/ \E s \in SocketIds : SockClosing(s)
  \/ \E s \in SocketIds, f \in LifecycleFrames, pi \in BOOLEAN : SockMessage(s, f, pi)
  \/ ServiceStart

\* The interval timer keeps firing while it is armed, a pending handshake
\* completes, and a socket that is closing emits its close.
LiveSpec ==
  /\ LiveInit
  /\ [][LiveNext]_vars
  /\ WF_vars(\E t \in TimerIds : ReconnectTick(t))
  /\ WF_vars(\E s \in SocketIds : SockOpen(s))
  /\ WF_vars(\E s \in SocketIds : SockFinalClose(s))

\* ------------------------------------------------------------ properties
\* The sockets with a connection attempt in flight or an open connection.
ActiveSockets == { s \in SocketIds : sockets[s].readyState \in {"CONNECTING", "OPEN"} }
\* The socket objects that exist and have not emitted their final close.
LiveSockets == { s \in SocketIds : sockets[s].readyState # "CLOSED" }

Connected == ws # 0 /\ sockets[ws].readyState = "OPEN"
Connecting == ws # 0 /\ sockets[ws].readyState = "CONNECTING"

\* C1: single-flight connection. In every reachable state at most one socket
\* is Connecting or Connected, so no callback has started a connection attempt
\* while another socket was Connecting or Connected.
C1_SingleFlight == Cardinality(ActiveSockets) <= 1

\* C1 witness: the reconnect timer has started a new attempt while the socket
\* of the failed attempt still exists.
C1_Witness ==
  /\ ev.op = "tick"
  /\ Connecting
  /\ Cardinality(LiveSockets) = 2

\* The open listener has just run on the current socket and sent the
\* device-list GET on it.
OpenedWithDeviceListRequest ==
  /\ ev.op = "open"
  /\ ev.handled
  /\ Connected
  /\ ev.sock = ws
  /\ Len(sent) >= 1
  /\ sent[1] = Request(ws, DevicesListPath, "GET")

\* C2: eventual recovery. Once an instance has appeared and the service is
\* available, a plugin that is not connected eventually gets a connection
\* opened and sends the device-list GET on it.
C2_EventualRecovery ==
  (up /\ DOMAIN instances # {} /\ ~Connected) ~> OpenedWithDeviceListRequest

\* C2 witness: a connection opened by a retry, while the socket of the failed
\* attempt still exists.
C2_Witness ==
  /\ OpenedWithDeviceListRequest
  /\ Cardinality(LiveSockets) = 2
  /\ DOMAIN instances # {}

\* The device-list frames whose snapshot holds no battery-capable device.
EmptyListFrames ==
  { f \in ListFrames : FilterCapable(f.payload[1].deviceInfos) = <<>> }

\* The battery-state queries among the requests sent by the last callback.
QueriedDevices == { sent[i].path[2] : i \in { j \in 1..Len(sent) : sent[j].path[1] = "battery" } }

\* C3: applying a snapshot without a battery-capable device never fails. The
\* message listener completes without throwing, every instance with an empty
\* deviceId keeps it empty, no battery-state query is sent for it, and the
\* (empty) device list is republished to an open property inspector.
C3_EmptySnapshotNeverFails ==
  [][\A s \in SocketIds, f \in EmptyListFrames, pi \in BOOLEAN :
       (ev'.op = "message" /\ sockets[s].listeners /\ SockMessage(s, f, pi)) =>
         /\ ~ev'.threw
         /\ \A w \in DOMAIN instances :
              instances[w].deviceId = "" => instances'[w].deviceId = ""
         /\ "" \notin QueriedDevices'
         /\ pi => ui' = <<sendToPropertyInspector(<<>>)>>]_vars

\* C4: every outbound send path drops the request silently while the
\* connection is not Connected: the callback sends nothing and throws nothing.
C4_SendsDropWhenNotConnected ==
  (/\ ev.op \in {"willAppear", "didReceiveSettings", "message", "sendToPlugin"}
   /\ ev.handled
   /\ ~Connected)
  => (sent = <<>> /\ ~ev.threw)

\* The host calls of the last callback that address action w.
UiFor(w) == SelectSeq(ui, LAMBDA c : c.call # "sendToPropertyInspector" /\ c.action = w)
\* The frames that carry a battery state.
BatteryFrames == StateFrames \cup PushFrames

\* What a battery push p does to instance w when it refreshes it, and when it
\* leaves it alone.
Refreshed(w, p) ==
  /\ instances'[w] = [instances[w] EXCEPT !.percentage = p.percentage,
                                          !.charging = p.charging]
  /\ UiFor(w)' =
       << [call |-> "setCompositeImage", action |-> w,
           imagePath |-> getBatteryImage(p.percentage, p.charging),
           bg |-> instances[w].backgroundColor],
          [call |-> "setTitle", action |-> w,
           title |-> IF instances[w].name = "" THEN ToString(p.percentage) \o "%"
                     ELSE instances[w].name \o Repeat("\n", instances[w].spacing)
                          \o ToString(p.percentage) \o "%"] >>
Untouched(w) ==
  /\ instances'[w] = instances[w]
  /\ UiFor(w)' = <<>>

\* C5 as claimed: a battery push refreshes every instance of the table that
\* is bound to the pushed device and leaves every other instance untouched.
C5_FanOutEveryInstance ==
  [][\A s \in SocketIds, f \in BatteryFrames, pi \in BOOLEAN :
       (ev'.op = "message" /\ sockets[s].listeners /\ SockMessage(s, f, pi)) =>
         \A w \in DOMAIN instances :
           IF instances[w].deviceId = f.payload[1].deviceId
           THEN Refreshed(w, f.payload[1]) ELSE Untouched(w)]_vars

\* C5 amended: a battery push refreshes every instance that is bound to the
\* pushed device and whose action the host currently shows, and leaves every
\* other instance untouched.
C5_FanOutVisibleInstances ==
  [][\A s \in SocketIds, f \in BatteryFrames, pi \in BOOLEAN :
       (ev'.op = "message" /\ sockets[s].listeners /\ SockMessage(s, f, pi)) =>
         \A w \in DOMAIN instances :
           IF instances[w].deviceId = f.payload[1].deviceId /\ w \in Range(visible)
           THEN Refreshed(w, f.payload[1]) ELSE Untouched(w)]_vars

\* C5 witness: one push has refreshed two instances bound to the same device.
C5_Witness ==
  /\ ev.op = "message"
  /\ Len(ui) = 4
  /\ \A w \in Widgets :
       /\ w \in DOMAIN instances
       /\ instances[w].deviceId = "dev002"
       /\ instances[w].percentage = 85
       /\ instances[w].charging
       /\ Len(UiFor(w)) = 2

\* What an asleep frame does to instance w when it marks it asleep.
MarkedAsleep(w) ==
  /\ instances'[w] = instances[w]
  /\ UiFor(w)' =
       << [call |-> "setCompositeImage", action |-> w, imagePath |-> AsleepImage,
           bg |-> instances[w].backgroundColor],
          [call |-> "setTitle", action |-> w, title |-> ""] >>

\* C6 as claimed: a battery-state frame without payload for device d gives the
\* empty title and the asleep icon to every instance of the table bound to d,
\* sends nothing to the others, and changes no stored field.
C6_AsleepEveryInstance ==
  [][\A s \in SocketIds, f \in AsleepFrames, pi \in BOOLEAN :
       (ev'.op = "message" /\ sockets[s].listeners /\ SockMessage(s, f, pi)) =>
         \A w \in DOMAIN instances :
           IF instances[w].deviceId = f.path[2]
           THEN MarkedAsleep(w) ELSE Untouched(w)]_vars

\* C6 amended: the frame gives the empty title and the asleep icon to every
\* instance bound to d whose action the host currently shows, sends nothing to
\* the others, and changes no stored field.
C6_AsleepVisibleInstances ==
  [][\A s \in SocketIds, f \in AsleepFrames, pi \in BOOLEAN :
       (ev'.op = "message" /\ sockets[s].listeners /\ SockMessage(s, f, pi)) =>
         \A w \in DOMAIN instances :
           IF instances[w].deviceId = f.path[2] /\ w \in Range(visible)
           THEN MarkedAsleep(w) ELSE Untouched(w)]_vars

\* C6 witness: of two shown instances bound to different devices, one has been
\* marked asleep and the other has received nothing.
C6_Witness ==
  /\ ev.op = "message"
  /\ Range(visible) = Widgets
  /\ \E a, b \in Widgets :
       /\ instances[a].deviceId = "dev001"
       /\ instances[b].deviceId = "dev002"
       /\ ui = << [call |-> "setCompositeImage", action |-> a, imagePath |-> AsleepImage,
                   bg |-> instances[a].backgroundColor],
                  [call |-> "setTitle", action |-> a, title |-> ""] >>

\* C7: settings isolation. A settings change for action a leaves every other
\* instance unchanged, adds or removes no instance, and leaves a's own
\* percentage and charging unchanged.
C7_SettingsIsolation ==
  [][\A a \in Widgets, st \in SettingsSet :
       (ev'.op = "didReceiveSettings" /\ DidReceiveSettings(a, st)) =>
         /\ DOMAIN instances' = DOMAIN instances
         /\ \A b \in DOMAIN instances :
              IF b = a
              THEN /\ instances'[b].percentage = instances[b].percentage
                   /\ instances'[b].charging = instances[b].charging
              ELSE instances'[b] = instances[b]]_vars

\* C7 witness: a settings change has renamed an instance that holds a pushed
\* battery state, next to another instance with other settings.
C7_Witness ==
  /\ ev.op = "didReceiveSettings"
  /\ ev.handled
  /\ DOMAIN instances = Widgets
  /\ instances[ev.arg].name = "Mouse"
  /\ instances[ev.arg].backgroundColor = "#FF0000"
  /\ instances[ev.arg].percentage = 85
  /\ \E b \in Widgets : instances[b].name = "" /\ instances[b].deviceId = "dev001"

\* The id of the first battery-capable device of a snapshot, in snapshot order.
FirstCapableId(infos) ==
  infos[CHOOSE i \in 1..Len(infos) :
          /\ infos[i].capabilities.hasBatteryStatus
          /\ \A j \in 1..(i - 1) : ~infos[j].capabilities.hasBatteryStatus].id

HasCapable(infos) == \E i \in 1..Len(infos) : infos[i].capabilities.hasBatteryStatus

\* C8: default device assignment. When a snapshot with a battery-capable
\* device is applied on the open connection, every instance keeps a non-empty
\* deviceId and gets the first capable device otherwise, and one battery-state
\* query per instance is sent for the resulting deviceId.
C8_DefaultAssignment ==
  [][\A s \in SocketIds, f \in ListFrames, pi \in BOOLEAN :
       (/\ ev'.op = "message"
        /\ sockets[s].listeners
        /\ HasCapable(f.payload[1].deviceInfos)
        /\ SockMessage(s, f, pi)) =>
         /\ DOMAIN instances' = DOMAIN instances
         /\ \A w \in DOMAIN instances :
              instances'[w].deviceId =
                IF instances[w].deviceId # "" THEN instances[w].deviceId
                ELSE FirstCapableId(f.payload[1].deviceInfos)
         /\ sent' = [i \in 1..Len(instOrder) |->
                       [sock |-> s, verb |-> "GET",
                        path |-> <<"battery", instances'[instOrder[i]].deviceId, "state">>]]]_vars

\* C8 witness: a snapshot has been applied to two instances; one holds the
\* default device, the other an id that is not in the snapshot, and a query
\* was sent for each.
C8_Witness ==
  /\ ev.op = "message"
  /\ Len(devices) = 1
  /\ devices[1].id = "dev001"
  /\ DOMAIN instances = Widgets
  /\ Len(sent) = 2
  /\ QueriedDevices = {"dev001", "dev002"}
  /\ \E w \in Widgets : instances[w].deviceId = "dev002"

\* C9: every open of a connection leaves the plugin Connected on that socket
\* with no reconnect timer, having sent exactly the device-list GET and then
\* the battery-state-changed SUBSCRIBE on it.
C9_OpenInitializes ==
  ev.op = "open" =>
    /\ ev.handled
    /\ ~ev.threw
    /\ ws = ev.sock
    /\ Connected
    /\ ~isConnecting
    /\ reconnectInterval = 0
    /\ timers = {}
    /\ sent = << [sock |-> ws, verb |-> "GET", path |-> <<"devices", "list">>],
                 [sock |-> ws, verb |-> "SUBSCRIBE",
                  path |-> <<"battery", "state", "changed">>] >>

\* C9 witness: a reconnection has opened: the second socket is open while the
\* first one, which failed, has not yet emitted its close.
C9_Witness ==
  /\ ev.op = "open"
  /\ ws = 2
  /\ sockets[1].readyState = "CLOSING"
  /\ Len(sent) = 2

\* C10: every error or close of the current socket leaves the plugin
\* Disconnected with the listeners of that socket removed and, the instance
\* table being non-empty, exactly one reconnect timer armed; a timer that was
\* armed already is the one that stays.
C10_ErrorOrCloseDisconnects ==
  [][\A s \in SocketIds :
       (/\ ev'.op \in {"error", "close"}
        /\ sockets[s].listeners
        /\ (SockError(s) \/ SockClose(s))) =>
         /\ ws' = 0
         /\ ~isConnecting'
         /\ ~sockets'[s].listeners
         /\ DOMAIN instances # {} =>
              /\ reconnectInterval' # 0
              /\ timers' = {reconnectInterval'}
         /\ reconnectInterval # 0 =>
              /\ reconnectInterval' = reconnectInterval
              /\ timers' = timers]_vars

\* C10 witness: a retry has failed while the timer was armed: both sockets
\* have failed and one timer is running.
C10_Witness ==
  /\ ev.op = "error"
  /\ ev.handled
  /\ ws = 0
  /\ \A s \in {1, 2} : sockets[s].readyState = "CLOSING"
  /\ timers = {reconnectInterval}
  /\ reconnectInterval # 0

\* ---------------------------------------------------------------- C11..C20
\* C11: reconnection is attempted only while an instance exists. Once the
\* host has removed the last action, a reconnect tick starts no connection
\* attempt and the timer is cancelled. The plugin has no removal hook: its
\* table keeps the instance of an action the host removed, so "no instance
\* left" is what the host shows.
C11_NoReconnectWithoutInstance ==
  [][(ev'.op = "tick" /\ visible = <<>>) =>
       /\ UNCHANGED <<ws, isConnecting, sockets>>
       /\ timers' = {}
       /\ reconnectInterval' = 0]_vars

\* ------------------------------------------------------------------- C12
\* BatteryState.percentage: the charged capacity, in percent.
Percentages == 0..100

\* The battery pushes for one device over every percentage and both charging
\* states.
IconFrames ==
  { [path |-> BatteryChangedPath,
     payload |-> Some([deviceId |-> "dev001", percentage |-> p, charging |-> c])] :
      p \in Percentages, c \in BOOLEAN }

\* One action bound to dev001 on an open connection, refreshed by every
\* battery state.
IconNext ==
  \/ \E w \in {"w1"}, st \in {[NoSettings EXCEPT !.device = Some("dev001")]} : WillAppear(w, st)
  \/ \E s \in SocketIds : SockOpen(s)
  \/ \E s \in SocketIds, f \in IconFrames, pi \in {FALSE} : SockMessage(s, f, pi)

IconSpec == Init /\ [][IconNext]_vars

\* The band table: charging-high / -mid / -low are the green, orange and red
\* charging icons; the discharging icons are named after their band.
BandIcon(percentage, charging) ==
  IF charging
  THEN CASE percentage \in 80..100 -> "imgs/actions/monitor/charging-green"
         [] percentage \in 40..79 -> "imgs/actions/monitor/charging-orange"
         [] percentage \in 0..39 -> "imgs/actions/monitor/charging-red"
  ELSE CASE percentage = 100 -> "imgs/actions/monitor/key-100"
         [] percentage \in 95..99 -> "imgs/actions/monitor/key-95"
         [] percentage \in 90..94 -> "imgs/actions/monitor/key-90"
         [] percentage \in 80..89 -> "imgs/actions/monitor/key-80"
         [] percentage \in 70..79 -> "imgs/actions/monitor/key-70"
         [] percentage \in 60..69 -> "imgs/actions/monitor/key-60"
         [] percentage \in 50..59 -> "imgs/actions/monitor/key-50"
         [] percentage \in 40..49 -> "imgs/actions/monitor/key-40"
         [] percentage \in 30..39 -> "imgs/actions/monitor/key-30"
         [] percentage \in 20..29 -> "imgs/actions/monitor/key-20"
         [] percentage \in 1..19 -> "imgs/actions/monitor/key-10"
         [] percentage = 0 -> "imgs/actions/monitor/key-0"

\* C12: the icon requested for a battery state is the one of the band table,
\* for every percentage in 0..100 and both charging states: whenever a
\* battery push has refreshed an action, the image requested for it is the
\* band icon of the percentage and charging flag just stored.
C12_IconBands ==
  (ev.op = "message" /\ ev.handled) =>
    \A i \in 1..Len(ui) :
      ui[i].call = "setCompositeImage" =>
        /\ instances[ui[i].action].percentage \in Percentages
        /\ ui[i].imagePath = BandIcon(instances[ui[i].action].percentage,
                                      instances[ui[i].action].charging)

\* C12 witness: a discharging device at 5 percent has been given the icon of
\* the 10 band.
C12_Witness ==
  /\ ev.op = "message"
  /\ Len(ui) = 2
  /\ ui[1].call = "setCompositeImage"
  /\ ui[1].imagePath = "imgs/actions/monitor/key-10"
  /\ instances["w1"].percentage = 5
  /\ ~instances["w1"].charging

\* ------------------------------------------------------------------- C13
\* Settings the host may hand to onWillAppear, with and without the stored
\* battery state.
AppearSettings ==
  { NoSettings,
    [NoSettings EXCEPT !.device = Some("")],
    [device |-> Some("dev001"), name |-> Some("Mouse"), bg |-> Some("#FF0000"),
     spacing |-> Some(1), value |-> Some(50), pluggedIn |-> Some(TRUE)] }

\* Actions appearing and disappearing against a connection in every state:
\* none, connecting, open, closing, failed with the timer armed.
AppearNext ==
  \/ \E w \in Widgets, st \in AppearSettings : WillAppear(w, st)
  \/ \E w \in Widgets : WillDisappear(w)
  \/ \E t \in TimerIds : ReconnectTick(t)
  \/ \E s \in SocketIds : SockOpen(s)
  \/ \E s \in SocketIds : SockError(s)
  \/ \E s \in SocketIds : SockClose(s)
  \/ \E s \in SocketIds : SockClosing(s)

AppearSpec == Init /\ [][AppearNext]_vars

\* Disconnected: no socket handle and no attempt in flight.
Disconnected == ws = 0 /\ ~isConnecting

\* This step creates a socket object.
AttemptStarted ==
  \E s \in SocketIds :
    sockets[s].readyState = "CLOSED" /\ sockets'[s].readyState = "CONNECTING"

\* C13: every onWillAppear stores, for its action, the instance made of the
\* supplied settings over the defaults ("" deviceId and name, 100, false,
\* #12142D, spacing 2), leaving the other instances alone; it starts a
\* connection attempt if and only if the state is Disconnected; and it always
\* hands one device-list GET to websocketSend without failing, which goes out
\* when the connection is open and is dropped otherwise.
C13_WillAppear ==
  [][\A w \in Widgets, st \in AppearSettings :
       (ev'.op = "willAppear" /\ ev'.arg = w /\ WillAppear(w, st)) =>
         /\ DOMAIN instances' = DOMAIN instances \cup {w}
         /\ instances'[w] =
              [deviceId |-> IF st.device = None THEN "" ELSE st.device[1],
               name |-> IF st.name = None THEN "" ELSE st.name[1],
               percentage |-> IF st.value = None THEN 100 ELSE st.value[1],
               charging |-> IF st.pluggedIn = None THEN FALSE ELSE st.pluggedIn[1],
               backgroundColor |-> IF st.bg = None THEN "#12142D" ELSE st.bg[1],
               spacing |-> IF st.spacing = None THEN 2 ELSE st.spacing[1]]
         /\ \A k \in DOMAIN instances \ {w} : instances'[k] = instances[k]
         /\ Disconnected <=> AttemptStarted
         /\ asked' = <<Ask(DevicesListPath, "GET")>>
         /\ sent' = IF Connected' THEN <<Request(ws', DevicesListPath, "GET")>> ELSE <<>>
         /\ ~ev'.threw]_vars

\* C13 witness: an action that was shown before appears again with stored
\* settings while the plugin is Disconnected with the timer armed; its
\* instance is overwritten, an attempt is started and the device-list GET is
\* handed over and dropped.
C13_Witness ==
  /\ ev.op = "willAppear"
  /\ Connecting
  /\ ev.sock = ws
  /\ timers # {}
  /\ Cardinality(DOMAIN instances) = 1
  /\ instances[ev.arg] =
       [deviceId |-> "dev001", name |-> "Mouse", percentage |-> 50, charging |-> TRUE,
        backgroundColor |-> "#FF0000", spacing |-> 1]
  /\ asked = <<Ask(DevicesListPath, "GET")>>
  /\ sent = <<>>

\* ------------------------------------------------------------------- C14
\* The registry and the table against every device-list snapshot, with the
\* property inspector asking for the list, on a connection that opens, is
\* closed by the peer and is re-made.
RegistryNext ==
  \/ \E w \in Widgets, st \in LifecycleSettings : WillAppear(w, st)
  \/ \E w \in Widgets : WillDisappear(w)
  \/ \E w \in Widgets, st \in LifecycleSettings : DidReceiveSettings(w, st)
  \/ \E e \in PluginEvents, pi \in BOOLEAN : SendToPlugin(e, pi)
  \/ \E t \in TimerIds : ReconnectTick(t)
  \/ \E s \in SocketIds : SockOpen(s)
  \/ \E s \in SocketIds : SockClose(s)
  \/ \E s \in SocketIds, f \in ListFrames, pi \in BOOLEAN : TracedMessage(s, f, pi)

RegistrySpec == Init /\ [][RegistryNext]_vars

\* The battery-capable devices of a snapshot, in their order.
RECURSIVE BatteryCapable(_)
BatteryCapable(infos) ==
  IF infos = <<>> THEN <<>>
  ELSE IF Head(infos).capabilities.hasBatteryStatus
       THEN <<Head(infos)>> \o BatteryCapable(Tail(infos))
       ELSE BatteryCapable(Tail(infos))

\* The device lists handed to the property inspector by the last callback.
PublishedLists ==
  { ui[i].items : i \in { j \in 1..Len(ui) : ui[j].call = "sendToPropertyInspector" } }

\* items is the registry devs as label/value pairs.
IsListOf(items, devs) ==
  /\ Len(items) = Len(devs)
  /\ \A i \in 1..Len(devs) :
       items[i] = [label |-> devs[i].displayName, value |-> devs[i].id]

\* C14: the registry is replaced, never merged. Every applied snapshot makes
\* the registry exactly its battery-capable devices in their order, whatever
\* the registry held before, and no other step changes the registry; so after
\* any sequence of snapshots it is that of the most recent one. Every list
\* republished after a snapshot or returned for getDevices is the registry as
\* label/value pairs.
C14_RegistryReplaced ==
  [][/\ \A s \in SocketIds, f \in ListFrames, pi \in BOOLEAN :
          (ev'.op = "message" /\ sockets[s].listeners /\ TracedMessage(s, f, pi)) =>
            /\ devices' = BatteryCapable(f.payload[1].deviceInfos)
            /\ (pi /\ ~ev'.threw) => Cardinality(PublishedLists') = 1
     /\ ~(ev'.op = "message" /\ ev'.handled) => devices' = devices
     /\ (ev'.op = "sendToPlugin" /\ ev'.arg = "getDevices"
           /\ SendToPlugin("getDevices", TRUE)) => Cardinality(PublishedLists') = 1
     /\ \A items \in PublishedLists' : IsListOf(items, devices')]_vars

\* C14 witness: a snapshot with one capable device has replaced a registry
\* that held another device as well, and the list of that one device has been
\* republished.
C14_Witness ==
  /\ ev.op = "message"
  /\ devices = <<Mouse>>
  /\ seen = {"dev001", "dev002"}
  /\ PublishedLists = { <<[label |-> "G502", value |-> "dev001"]>> }

\* ------------------------------------------------------------------- C15
\* Battery states and the asleep answer for the device of one action.
RenderFrames ==
  { [path |-> BatteryChangedPath,
     payload |-> Some([deviceId |-> "dev001", percentage |-> pc[1], charging |-> pc[2]])] :
      pc \in { <<85, TRUE>>, <<15, FALSE>> } }
  \cup { [path |-> BatteryStatePath("dev001"), payload |-> None] }

RenderSettings ==
  { [NoSettings EXCEPT !.device = Some("dev001")],
    [NoSettings EXCEPT !.device = Some("dev001"), !.bg = Some("#FF0000")] }

\* One action on an open connection: frames ask for renders, and every render
\* settles at some time of its own, well or badly.
RenderNext ==
  \/ \E w \in {"w1"}, st \in RenderSettings : WillAppear(w, st)
  \/ \E w \in {"w1"} : WillDisappear(w)
  \/ \E s \in SocketIds : SockOpen(s)
  \/ \E s \in SocketIds, f \in RenderFrames, pi \in {FALSE} : TracedMessage(s, f, pi)
  \/ \E r \in RenderIds, ok \in BOOLEAN : RenderDone(r, ok)

\* A promise of createCompositeImage settles.
RenderSpec ==
  /\ Init
  /\ [][RenderNext]_vars
  /\ \A r \in RenderIds : WF_vars(\E ok \in BOOLEAN : RenderDone(r, ok))

\* The action.setImage calls of the last callback.
ImageUpdates == SelectSeq(ui, LAMBDA c : c.call = "setImage")

\* C15: render fallback. Every image update a frame requests (battery refresh
\* or asleep) becomes a render in flight; a render in flight eventually
\* settles; when it settles it makes exactly one image update on its action,
\* the composite of its background and icon when rendering succeeded and the
\* plain icon path when it failed, and throws nothing; no other callback
\* updates an image or drops a render.
C15_RenderFallback ==
  /\ [][/\ \A s \in SocketIds, f \in RenderFrames :
             (ev'.op = "message" /\ sockets[s].listeners /\ TracedMessage(s, f, FALSE)) =>
               /\ \A i \in 1..Len(ui') :
                    ui'[i].call = "setCompositeImage" =>
                      \E r \in RenderIds : renders[r] = None /\ renders'[r] = Some(ui'[i])
               /\ Cardinality(FreeRenders(renders)) - Cardinality(FreeRenders(renders'))
                    = Len(RenderRequests(ui'))
        /\ \A r \in RenderIds, ok \in BOOLEAN :
             (ev'.op = "rendered" /\ RenderDone(r, ok)) =>
               /\ ImageUpdates' =
                    <<[call |-> "setImage", action |-> renders[r][1].action,
                       image |-> IF ok
                                 THEN createCompositeImage(renders[r][1].bg,
                                                           renders[r][1].imagePath)
                                 ELSE renders[r][1].imagePath]>>
               /\ ~ev'.threw
               /\ renders' = [renders EXCEPT ![r] = None]
        /\ ev'.op # "rendered" =>
             /\ ImageUpdates' = <<>>
             /\ \A r \in RenderIds : renders[r] # None => renders'[r] = renders[r]]_vars
  /\ \A r \in RenderIds : (renders[r] # None) ~> (renders[r] = None)

\* C15 witness: the render of the asleep icon failed and the plain icon path
\* has been set on the action.
C15_Witness ==
  /\ ev.op = "rendered"
  /\ ui = <<setImage("w1", AsleepImage)>>
  /\ screen["w1"] = [title |-> "", image |-> AsleepImage]

\* ------------------------------------------------------------------- C16
\* C16 as claimed: in every reachable state where the reconnect timer is
\* armed, no socket is Connecting or Connected and at least one instance
\* exists.
C16_ArmedOnlyWhileDisconnected ==
  timers # {} => (ActiveSockets = {} /\ DOMAIN instances # {})

\* C16 amended: in every reachable state where the reconnect timer is armed,
\* it is the one timer reconnectInterval holds, no socket is Connected and at
\* least one instance exists. A socket may be Connecting: the timer stays
\* armed through the attempts it starts, until one opens.
C16_ArmedOnlyWhileNotConnected ==
  timers # {} =>
    /\ timers = {reconnectInterval}
    /\ \A s \in SocketIds : sockets[s].readyState # "OPEN"
    /\ DOMAIN instances # {}

\* C16 witness: the timer is armed while the attempt it started is in flight.
C16_Witness ==
  /\ ev.op = "tick"
  /\ timers # {}
  /\ Connecting

\* ------------------------------------------------------------------- C17
\* C17 as claimed: in every reachable state in which the registry is
\* non-empty, every instance's deviceId is empty or an id the registry has
\* held (an id of a snapshot accepted into the registry so far).
C17_DeviceIdsFromRegistry ==
  devices # <<>> =>
    \A w \in DOMAIN instances :
      instances[w].deviceId = "" \/ instances[w].deviceId \in seen

\* The device id the host supplies with settings st, if any.
SuppliedDevice(st) == st.device

\* C17 amended: an instance's deviceId is set in two ways only. onWillAppear
\* and a settings change store the device id the host supplies for that
\* action, whether the registry has ever held it or not (onWillAppear stores
\* "" when none is supplied, a settings change then keeps the id); applying a
\* snapshot binds an instance whose deviceId is empty to the first device of
\* the registry, an id the registry has held. So every deviceId is empty,
\* supplied by the host, or an id the registry has held.
C17_DeviceIdsFromHostOrRegistry ==
  [][\A w \in DOMAIN instances' :
       (w \notin DOMAIN instances \/ instances'[w].deviceId # instances[w].deviceId) =>
         \/ /\ ev'.op = "willAppear"
            /\ ev'.arg = w
            /\ \E st \in LifecycleSettings :
                 /\ WillAppear(w, st)
                 /\ instances'[w].deviceId =
                      (IF SuppliedDevice(st) = None THEN "" ELSE SuppliedDevice(st)[1])
         \/ /\ ev'.op = "didReceiveSettings"
            /\ ev'.arg = w
            /\ \E st \in LifecycleSettings :
                 /\ DidReceiveSettings(w, st)
                 /\ SuppliedDevice(st) = Some(instances'[w].deviceId)
         \/ /\ ev'.op = "message"
            /\ w \in DOMAIN instances
            /\ instances[w].deviceId = ""
            /\ devices' # <<>>
            /\ instances'[w].deviceId = devices'[1].id
            /\ instances'[w].deviceId \in seen']_vars

\* C17 witness: with a non-empty registry, one instance holds the id the
\* host supplied, which the registry never held, and another the id a
\* snapshot bound it to.
C17_Witness ==
  /\ ev.op = "message"
  /\ devices = <<Mouse>>
  /\ seen = {"dev001"}
  /\ DOMAIN instances = {"w1", "w2"}
  /\ instances["w1"].deviceId = "dev002"
  /\ instances["w2"].deviceId = "dev001"

\* ------------------------------------------------------------------- C18
\* The events a socket emits to the listeners of the plugin.
SocketEvents == {"open", "message", "error", "close"}

\* C18: no handler of a stale connection ever runs. A listener of the plugin
\* runs for a socket event only when the socket is the current one (ws); a
\* socket that has been cleaned up has no listeners left, so its later events
\* are not processed, also after reconnections.
C18_NoStaleHandler ==
  [][/\ (ev'.op \in SocketEvents /\ ev'.handled) => (ws # 0 /\ ev'.sock = ws)
     /\ \A s \in SocketIds : sockets'[s].listeners => s = ws']_vars

\* C18 witness: the close of a socket that failed and was cleaned up arrives
\* when a new socket is already the current one, and no listener runs.
C18_Witness ==
  /\ ev.op = "close"
  /\ ~ev.handled
  /\ ws # 0
  /\ ev.sock # ws
  /\ reconnectInterval # 0

\* ------------------------------------------------------------------- C19
\* C19: a settings change writes the fields before it sends. For a tracked
\* action the deviceId becomes the supplied device if one is supplied and
\* stays otherwise; when Connected and that deviceId is not empty, exactly
\* one battery-state query is sent, on ws, naming that deviceId; when not
\* Connected or that deviceId is empty, nothing is sent. For an action that
\* is not tracked nothing changes and nothing is sent.
C19_SettingsThenQuery ==
  [][\A w \in Widgets, st \in SettingsSet :
       (ev'.op = "didReceiveSettings" /\ ev'.arg = w /\ DidReceiveSettings(w, st)) =>
         IF w \in DOMAIN instances
         THEN LET updated == IF st.device = None THEN instances[w].deviceId
                             ELSE st.device[1]
              IN /\ instances'[w].deviceId = updated
                 /\ sent' = IF Connected /\ updated # ""
                            THEN <<[sock |-> ws, path |-> <<"battery", updated, "state">>,
                                    verb |-> "GET"]>>
                            ELSE <<>>
                 /\ ~ev'.threw
         ELSE /\ sent' = <<>>
              /\ ui' = <<>>
              /\ UNCHANGED <<devices, conn, timer, table, visible>>]_vars

\* C19 witness: a settings change that names another device has been applied
\* to a refreshed instance on an open connection, and the query for the new
\* device has been sent.
C19_Witness ==
  /\ ev.op = "didReceiveSettings"
  /\ ev.handled
  /\ Connected
  /\ instances[ev.arg].deviceId = "dev002"
  /\ instances[ev.arg].name = "Mouse"
  /\ sent = <<Request(ws, BatteryStatePath("dev002"), "GET")>>

\* ------------------------------------------------------------------- C20
\* The icon of a battery state composed over the default background.
ShownIcon(percentage, charging) ==
  createCompositeImage(DefaultBackground, getBatteryImage(percentage, charging))

\* C20: render completion is not ordered with message processing. A frame
\* processed later never cancels or replaces a render still in flight, and a
\* render that settles puts its own image on the screen whatever has been
\* processed or shown since it was requested, leaving the title and the
\* stored battery state alone. So the image of an older event can land on
\* top of that of a newer one (C20_Witness).
C20_RendersNotOrdered ==
  [][/\ ev'.op = "message" =>
          \A r \in RenderIds : renders[r] # None => renders'[r] = renders[r]
     /\ \A r \in RenderIds, ok \in BOOLEAN :
          (ev'.op = "rendered" /\ RenderDone(r, ok)) =>
            LET q == renders[r][1] IN
            /\ screen'[q.action].image =
                 (IF ok THEN createCompositeImage(q.bg, q.imagePath) ELSE q.imagePath)
            /\ screen'[q.action].title = screen[q.action].title
            /\ instances' = instances]_vars

\* C20 witness: the pushes 85 % charging and then 15 % discharging were
\* processed for one action, the render of the second settled first and the
\* render of the first last. Nothing is in flight any more; the action shows
\* the image of the older event under the title of the newer one, and the
\* instance stores the newer battery state.
C20_Witness ==
  /\ ev.op = "rendered"
  /\ \A r \in RenderIds : renders[r] = None
  /\ instances["w1"].backgroundColor = DefaultBackground
  /\ instances["w1"].percentage = 15
  /\ ~instances["w1"].charging
  /\ screen["w1"].title = "15%"
  /\ screen["w1"].image = ShownIcon(85, TRUE)

====
